---- MODULE Spec2Model ----
(***************************************************************************)
(* Governance services of the platform core:                               *)
(*   - the number-assignment engine (numbering/utils.py, numbering/models) *)
(*   - the lifecycle state-machine engine (lifecycle/utils.py, models)     *)
(*                                                                         *)
(* Storage is modelled as the code uses it: a relational store with        *)
(* row locks (select_for_update), transactions (transaction.atomic) that   *)
(* commit or roll back as a whole, READ COMMITTED visibility, and unique   *)
(* constraints checked at insert.  A character string is a sequence of     *)
(* one-character strings.  A date is a year and a month: the code compares *)
(* nothing else of a date.                                                 *)
(***************************************************************************)
EXTENDS Integers, Sequences, FiniteSets, TLC

VARIABLES
    today,          \* timezone.now(): [year, month]
    numberingRule,  \* table NumberingRule: entity_type -> rule row or NoRule
    seqRow,         \* table NumberSequence, committed: entity_type -> row or NoRow
    lock,           \* row lock on the NumberSequence row: entity_type -> holder
    assigned,       \* table AssignedNumber, committed rows in creation order
    proc,           \* each caller's position and local variables
    history,        \* the calls that have returned, in order of return
    stateDef,       \* table LifecycleStateDef: entity_type, state_name -> row
    transRule,      \* table LifecycleTransitionRule: entity_type, from, to -> row
    audit,          \* table LifecycleTransitionAudit, in creation order
    lifecycle_state, \* LifecycleModel.lifecycle_state of each entity record
    saver,          \* each administrator's position in LifecycleStateDef.save
    lifeOps,        \* lifecycle operations performed so far
    began,          \* per caller: how many calls had returned when its call began
    queries,        \* read-only lifecycle calls made so far
    lastQuery,      \* the latest read-only lifecycle call and what it returned
    instance,       \* each caller's in-memory copy of an entity record
    lastCall        \* the perform_transition call of the latest step, if it was one

numVars == <<today, numberingRule, seqRow, lock, assigned, proc, history>>

lifeVars ==
    <<stateDef, transRule, audit, lifecycle_state, saver, lifeOps, began,
      queries, lastQuery, instance, lastCall>>

vars == <<numVars, lifeVars>>

(***************************************************************************)
(* Bounds                                                                  *)
(***************************************************************************)
\* total number of engine calls in one behaviour
MaxCalls == 2
\* total number of lifecycle operations in one behaviour
MaxLifeOps == 3
\* total number of operations on entity records and audit entries
MaxEntityOps == 2
\* total number of state-definition saves started in one behaviour
MaxSaves == 2

Procs == {"p1", "p2"}
EntityIds == {"e1", "e2"}
EntityTypes == {"invoice", "order"}

\* absent values: Python None, a missing row, no uncommitted write
None == "None"
NoDate == [absent |-> "date"]
NoRule == [absent |-> "rule"]
NoRow == [absent |-> "row"]
NoWrite == [absent |-> "write"]
NoNumber == <<>>

\* the acting principal of each caller
UserOf(p) == IF p = "p1" THEN "alice" ELSE "bob"

(***************************************************************************)
(* Strings                                                                 *)
(***************************************************************************)
Digits == <<"0", "1", "2", "3", "4", "5", "6", "7", "8", "9">>

RECURSIVE Str(_)
\* Python str(n) of a natural number
Str(n) == IF n < 10 THEN <<Digits[n + 1]>>
          ELSE Str(n \div 10) \o <<Digits[(n % 10) + 1]>>

RECURSIVE ZFill(_, _)
\* Python s.zfill(width): pad with zeros on the left, never truncate
ZFill(s, width) == IF Len(s) >= width THEN s ELSE ZFill(<<"0">> \o s, width)

RECURSIVE Join(_, _)
\* Python delimiter.join(components)
Join(delimiter, components) ==
    IF components = <<>> THEN <<>>
    ELSE IF Len(components) = 1 THEN components[1]
    ELSE components[1] \o delimiter \o Join(delimiter, Tail(components))

(***************************************************************************)
(* Dates                                                                   *)
(***************************************************************************)
Date(y, m) == [year |-> y, month |-> m]

\* the clock readings of a behaviour: a month passes within a year, then
\* the year changes and the month is the first one's again
Calendar == {Date(2025, 11), Date(2025, 12), Date(2026, 11)}

\* the clock reading of the initial state
StartDate == Date(2025, 11)

Before(d1, d2) ==
    d1.year < d2.year \/ (d1.year = d2.year /\ d1.month < d2.month)

(***************************************************************************)
(* numbering/models.py                                                     *)
(***************************************************************************)
Rule(enabled, inclYear, inclMonth, reset) ==
    [is_enabled |-> enabled,
     prefix |-> <<"I", "N", "V">>,
     include_year |-> inclYear,
     year_format |-> "YYYY",
     include_month |-> inclMonth,
     sequence_length |-> 3,
     delimiter |-> <<"-">>,
     reset_behavior |-> reset]

RESET_CHOICES == {"none", "yearly", "monthly"}

\* NumberSequence(rule=rule): current_value default 0, last_reset_date null
NewSequence == [current_value |-> 0, last_reset_date |-> NoDate]

AssignedRow(et, eid, number, user) ==
    [entity_type |-> et, entity_id |-> eid, number |-> number, assigned_by |-> user]

\* the constraints without unique_number_per_entity_type
ViolatesUniqueEntityOnly(table, row) ==
    \E i \in DOMAIN table :
        /\ table[i].entity_type = row.entity_type
        /\ table[i].entity_id = row.entity_id

\* the constraints without unique_entity_assignment
ViolatesUniqueNumberOnly(table, row) ==
    \E i \in DOMAIN table :
        /\ table[i].entity_type = row.entity_type
        /\ table[i].number = row.number

\* AssignedNumber.Meta.constraints: would inserting `row` violate one?
ViolatesUnique(table, row) ==
    \E i \in DOMAIN table :
        /\ table[i].entity_type = row.entity_type
        /\ \/ table[i].number = row.number            \* unique_number_per_entity_type
           \/ table[i].entity_id = row.entity_id      \* unique_entity_assignment

(***************************************************************************)
(* numbering/utils.py: pure parts                                          *)
(***************************************************************************)
\* a monthly policy that compares the month alone
check_reset_month_only(rule, sequence, now) ==
    LET lr == sequence.last_reset_date
        reset ==
            IF rule.reset_behavior = "none" THEN FALSE
            ELSE IF rule.reset_behavior = "yearly"
                 THEN lr = NoDate \/ lr.year /= now.year
            ELSE lr = NoDate \/ lr.month /= now.month
    IN [reset |-> reset,
        sequence |-> IF reset
                     THEN [current_value |-> 0, last_reset_date |-> now]
                     ELSE sequence]

\* check_reset_needed: the sequence object after the call, and whether it
\* was saved (True returned)
check_reset_needed(rule, sequence, now) ==
    LET lr == sequence.last_reset_date
        reset ==
            IF rule.reset_behavior = "none" THEN FALSE
            ELSE IF rule.reset_behavior = "yearly"
                 THEN lr = NoDate \/ lr.year /= now.year
            ELSE IF rule.reset_behavior = "monthly"
                 THEN lr = NoDate \/ lr.month /= now.month \/ lr.year /= now.year
            ELSE FALSE
    IN [reset |-> reset,
        sequence |-> IF reset
                     THEN [current_value |-> 0, last_reset_date |-> now]
                     ELSE sequence]

\* a format that cuts the sequence value down to sequence_length digits
format_number_cut(rule, sequence_value, now) ==
    LET c1 == IF rule.prefix /= <<>> THEN <<rule.prefix>> ELSE <<>>
        c2 == IF rule.include_year
              THEN IF rule.year_format = "YY"
                   THEN <<ZFill(Str(now.year % 100), 2)>>
                   ELSE <<Str(now.year)>>
              ELSE <<>>
        c3 == IF rule.include_month THEN <<ZFill(Str(now.month), 2)>> ELSE <<>>
        c4 == <<ZFill(Str(sequence_value % (10 ^ rule.sequence_length)),
                      rule.sequence_length)>>
    IN Join(rule.delimiter, c1 \o c2 \o c3 \o c4)

\* a format that always writes the year in full
format_number_full_year(rule, sequence_value, now) ==
    LET c1 == IF rule.prefix /= <<>> THEN <<rule.prefix>> ELSE <<>>
        c2 == IF rule.include_year THEN <<Str(now.year)>> ELSE <<>>
        c3 == IF rule.include_month THEN <<ZFill(Str(now.month), 2)>> ELSE <<>>
        c4 == <<ZFill(Str(sequence_value), rule.sequence_length)>>
    IN Join(rule.delimiter, c1 \o c2 \o c3 \o c4)

\* format_number(rule, sequence_value) at clock reading `now`
format_number(rule, sequence_value, now) ==
    LET c1 == IF rule.prefix /= <<>> THEN <<rule.prefix>> ELSE <<>>
        c2 == IF rule.include_year
              THEN IF rule.year_format = "YY"
                   THEN <<ZFill(Str(now.year % 100), 2)>>
                   ELSE <<Str(now.year)>>
              ELSE <<>>
        c3 == IF rule.include_month THEN <<ZFill(Str(now.month), 2)>> ELSE <<>>
        c4 == <<ZFill(Str(sequence_value), rule.sequence_length)>>
    IN Join(rule.delimiter, c1 \o c2 \o c3 \o c4)

(***************************************************************************)
(* Callers.  A caller is idle or inside one call; its record holds the     *)
(* call's arguments and the local variables of the code it runs.           *)
(*   op "next"      get_next_sequence_value(rule), called on its own       *)
(*   op "generate"  generate_number(entity_type, user)                     *)
(*   op "assign"    assign_number(entity_type, entity_id, user)            *)
(***************************************************************************)
Idle ==
    [pc |-> "idle", op |-> None, et |-> None, eid |-> None, sequence |-> NoRow,
     next_value |-> 0, number |-> NoNumber, tx |-> NoWrite]

\* generate_number and assign_number are @transaction.atomic: their writes
\* stay uncommitted, and their row locks held, until they return
InTx(p) == proc[p].op \in {"generate", "assign"}

Started == Len(history) + Cardinality({p \in Procs : proc[p].pc /= "idle"})

\* the NumberSequence row as caller p reads it: its own uncommitted write,
\* else the committed row
RowSeenBy(p, et) ==
    IF lock[et] = p /\ proc[p].tx /= NoWrite THEN proc[p].tx ELSE seqRow[et]

\* one lock for the whole NumberSequence table
CanLockTable(p, et) == \A e \in EntityTypes : lock[e] \in {None, p}

\* the caller may write (or lock) the row: nobody else holds its lock
CanLock(p, et) == lock[et] \in {None, p}

\* a return that leaves the caller's row locks in place
ReleasedByNobody(p) == lock

ReleasedBy(p) == [e \in EntityTypes |-> IF lock[e] = p THEN None ELSE lock[e]]

\* the committed NumberSequence table after p's transaction commits
CommitSeq(p) ==
    IF proc[p].tx = NoWrite THEN seqRow
    ELSE [seqRow EXCEPT ![proc[p].et] = proc[p].tx]

\* a rollback that leaves the counter write behind, as without the
\* enclosing transaction
RollbackKeepsWrite(p) == CommitSeq(p)

\* the committed NumberSequence table after p's transaction rolls back
RollbackSeq(p) == seqRow

\* the record of a returned call: the integer and the formatted number
\* (generate, assign) it returned, or the error it raised; for a call of
\* get_next_sequence_value also the clock reading of its locked reset check
Returned(p, outcome, value, number) ==
    [op |-> proc[p].op, et |-> proc[p].et, eid |-> proc[p].eid,
     outcome |-> outcome, value |-> value, number |-> number, at |-> NoDate]

\* p's call raises `error`; an enclosing transaction rolls back
Raise(p, error) ==
    /\ seqRow' = RollbackSeq(p)
    /\ lock' = ReleasedBy(p)
    /\ proc' = [proc EXCEPT ![p] = Idle]
    /\ history' = Append(history, Returned(p, error, 0, NoNumber))
    /\ UNCHANGED assigned

\* a caller starts a call
Call(p, op, et, eid) ==
    /\ proc[p].pc = "idle"
    /\ Started < MaxCalls
    /\ op = "next" => numberingRule[et] /= NoRule   \* the caller passes a rule
    /\ proc' = [proc EXCEPT ![p] =
                  [Idle EXCEPT !.op = op, !.et = et, !.eid = eid,
                               !.pc = CASE op = "next" -> "getseq"
                                        [] op = "generate" -> "rule"
                                        [] OTHER -> "check"]]
    /\ UNCHANGED <<today, numberingRule, lifeVars, seqRow, lock, assigned, history>>

\* a lookup that finds nothing
ExistingAssignmentNone(et, eid) == {}

\* AssignedNumber.objects.filter(entity_type, entity_id).first()
ExistingAssignment(et, eid) ==
    {i \in DOMAIN assigned :
        assigned[i].entity_type = et /\ assigned[i].entity_id = eid}

\* assign_number, lines 230-239: the already-assigned check
AssignCheck(p) ==
    /\ proc[p].pc = "check"
    /\ IF ExistingAssignment(proc[p].et, proc[p].eid) /= {}
       THEN Raise(p, "ValidationError")
       ELSE /\ proc' = [proc EXCEPT ![p].pc = "rule"]
            /\ UNCHANGED <<seqRow, lock, assigned, history>>
    /\ UNCHANGED <<today, numberingRule, lifeVars>>

\* a rule lookup that does not look at is_enabled
GenerateRuleAnyRule(p) ==
    /\ proc[p].pc = "rule"
    /\ IF numberingRule[proc[p].et] = NoRule
       THEN Raise(p, "NoRuleDefinedError")
       ELSE /\ proc' = [proc EXCEPT ![p].pc = "getseq"]
            /\ UNCHANGED <<seqRow, lock, assigned, history>>
    /\ UNCHANGED <<today, numberingRule, lifeVars>>

\* generate_number, lines 188-196: the rule lookup
GenerateRule(p) ==
    /\ proc[p].pc = "rule"
    /\ IF numberingRule[proc[p].et] = NoRule
       THEN Raise(p, "NoRuleDefinedError")
       ELSE IF ~numberingRule[proc[p].et].is_enabled
       THEN Raise(p, "NumberingDisabledError")
       ELSE /\ proc' = [proc EXCEPT ![p].pc = "getseq"]
            /\ UNCHANGED <<seqRow, lock, assigned, history>>
    /\ UNCHANGED <<today, numberingRule, lifeVars>>

\* get_or_create_sequence: read the committed row, or insert a new one.
\* An insert waits while another transaction's insert is uncommitted.
get_or_create_sequence(p) ==
    LET et == proc[p].et
    IN /\ proc[p].pc = "getseq"
       /\ IF seqRow[et] /= NoRow
          THEN /\ proc' = [proc EXCEPT ![p].pc = "prereset",
                                       ![p].sequence = seqRow[et]]
               /\ UNCHANGED <<seqRow, lock>>
          ELSE /\ lock[et] = None
               /\ IF InTx(p)
                  THEN /\ proc' = [proc EXCEPT ![p].pc = "prereset",
                                               ![p].sequence = NewSequence,
                                               ![p].tx = NewSequence]
                       /\ lock' = [lock EXCEPT ![et] = p]
                       /\ UNCHANGED seqRow
                  ELSE /\ proc' = [proc EXCEPT ![p].pc = "prereset",
                                               ![p].sequence = NewSequence]
                       /\ seqRow' = [seqRow EXCEPT ![et] = NewSequence]
                       /\ UNCHANGED lock
       /\ UNCHANGED <<today, numberingRule, lifeVars, assigned, history>>

\* get_next_sequence_value, line 105: check_reset_needed on the object read
\* before the lock; its save() writes the whole row
PreLockReset(p) ==
    LET et == proc[p].et
        r == check_reset_needed(numberingRule[et], proc[p].sequence, today)
    IN /\ proc[p].pc = "prereset"
       /\ IF r.reset
          THEN /\ CanLock(p, et)
               /\ IF InTx(p)
                  THEN /\ proc' = [proc EXCEPT ![p].pc = "lock",
                                               ![p].sequence = r.sequence,
                                               ![p].tx = r.sequence]
                       /\ lock' = [lock EXCEPT ![et] = p]
                       /\ UNCHANGED seqRow
                  ELSE /\ proc' = [proc EXCEPT ![p].pc = "lock",
                                               ![p].sequence = r.sequence]
                       /\ seqRow' = [seqRow EXCEPT ![et] = r.sequence]
                       /\ UNCHANGED lock
          ELSE /\ proc' = [proc EXCEPT ![p].pc = "lock"]
               /\ UNCHANGED <<seqRow, lock>>
       /\ UNCHANGED <<today, numberingRule, lifeVars, assigned, history>>

\* a plain get(pk): the row is read without taking its lock
SelectWithoutLock(p) ==
    /\ proc[p].pc = "lock"
    /\ proc' = [proc EXCEPT ![p].pc = "incr",
                            ![p].sequence = seqRow[proc[p].et]]
    /\ UNCHANGED <<today, numberingRule, lifeVars, seqRow, lock, assigned, history>>

\* get_next_sequence_value, lines 109-111: select_for_update().get(pk)
SelectForUpdate(p) ==
    LET et == proc[p].et
    IN /\ proc[p].pc = "lock"
       /\ CanLock(p, et)
       /\ lock' = [lock EXCEPT ![et] = p]
       /\ proc' = [proc EXCEPT ![p].pc = "incr",
                               ![p].sequence = RowSeenBy(p, et)]
       /\ UNCHANGED <<today, numberingRule, lifeVars, seqRow, assigned, history>>

\* get_next_sequence_value, lines 113-123: the reset check under the lock,
\* the increment and the save; called on its own, the block commits here.
\* A DatabaseError of the store (storageFails) is raised as NumberingError.
LockedIncrement(p, storageFails) ==
    LET et == proc[p].et
        r == check_reset_needed(numberingRule[et], proc[p].sequence, today)
        s == [r.sequence EXCEPT !.current_value = @ + 1]
    IN /\ proc[p].pc = "incr"
       /\ IF storageFails
          THEN Raise(p, "NumberingError")
          ELSE IF InTx(p)
          THEN /\ proc' = [proc EXCEPT ![p].pc = "format",
                                       ![p].sequence = s,
                                       ![p].tx = s,
                                       ![p].next_value = s.current_value]
               /\ UNCHANGED <<seqRow, lock, history, assigned>>
          ELSE /\ seqRow' = [seqRow EXCEPT ![et] = s]
               /\ lock' = ReleasedBy(p)
               /\ proc' = [proc EXCEPT ![p] = Idle]
               /\ history' = Append(history,
                     [Returned(p, "ok", s.current_value, NoNumber) EXCEPT !.at = today])
               /\ UNCHANGED assigned
       /\ UNCHANGED <<today, numberingRule, lifeVars>>

\* generate_number, lines 201-204: format and return; called on its own,
\* the transaction commits here
Format(p) ==
    LET et == proc[p].et
        number == format_number(numberingRule[et], proc[p].next_value, today)
    IN /\ proc[p].pc = "format"
       /\ IF proc[p].op = "generate"
          THEN /\ seqRow' = CommitSeq(p)
               /\ lock' = ReleasedBy(p)
               /\ proc' = [proc EXCEPT ![p] = Idle]
               /\ history' = Append(history, Returned(p, "ok", proc[p].next_value, number))
          ELSE /\ proc' = [proc EXCEPT ![p].pc = "create", ![p].number = number]
               /\ UNCHANGED <<seqRow, lock, history>>
       /\ UNCHANGED <<today, numberingRule, lifeVars, assigned>>

\* assign_number, lines 247-258: AssignedNumber.objects.create and return.
\* The insert fails on a unique constraint (IntegrityError) or, storageFails,
\* on the store itself; either way the transaction rolls back.
CreateAssigned(p, storageFails) ==
    LET row == AssignedRow(proc[p].et, proc[p].eid, proc[p].number, UserOf(p))
    IN /\ proc[p].pc = "create"
       /\ IF ViolatesUnique(assigned, row)
          THEN Raise(p, "IntegrityError")
          ELSE IF storageFails
          THEN Raise(p, "DatabaseError")
          ELSE /\ assigned' = Append(assigned, row)
               /\ seqRow' = CommitSeq(p)
               /\ lock' = ReleasedBy(p)
               /\ proc' = [proc EXCEPT ![p] = Idle]
               /\ history' = Append(history, Returned(p, "ok", proc[p].next_value, proc[p].number))
       /\ UNCHANGED <<today, numberingRule, lifeVars>>

\* the wall clock advances
Tick(date) ==
    /\ Before(today, date)
    /\ today' = date
    /\ UNCHANGED <<numberingRule, lifeVars, seqRow, lock, assigned, proc, history>>

(***************************************************************************)
(* lifecycle/models.py                                                     *)
(***************************************************************************)
LifeTypes == {"order"}
StateNames == {"draft", "closed"}
STATE_TYPE_CHOICES == {"normal", "locked", "final"}
Users == {"alice", "bob"}
Permissions == {"", "approve"}
Reasons == {None, "because"}
LifeEntityIds == {"e1"}

NoDef == [absent |-> "state"]
NoTransition == [absent |-> "transition"]
NoCall == [absent |-> "call"]
NoSave == [absent |-> "save"]
NoQuery == [absent |-> "query"]
NoInstance == [absent |-> "instance"]

\* user.has_perm(permission)
HasPerm(user, permission) == user = "alice" /\ permission = "approve"

StateDefRow(type, dflt, active) ==
    [state_type |-> type, is_default |-> dflt, is_active |-> active]

TransitionRow(permission, reason, active) ==
    [required_permission |-> permission, requires_reason |-> reason,
     is_active |-> active]

\* a save that writes the row and leaves the other defaults as they are
StateDefSavedNoClear(table, et, name, row) ==
    [table EXCEPT ![<<et, name>>] = row]

\* LifecycleStateDef.save: a default definition first clears the default
\* flag of the entity type's other definitions
StateDefSaved(table, et, name, row) ==
    [k \in DOMAIN table |->
        IF k = <<et, name>> THEN row
        ELSE IF row.is_default /\ k[1] = et /\ table[k] /= NoDef
                /\ table[k].is_default
        THEN [table[k] EXCEPT !.is_default = FALSE]
        ELSE table[k]]

\* an audit entry that drops the override flag
AuditEntryNoOverride(user, et, eid, from, to, reason, override) ==
    [user |-> user, entity_type |-> et, entity_id |-> eid, from_state |-> from,
     to_state |-> to, reason |-> IF reason = None THEN "" ELSE reason,
     is_override |-> FALSE]

\* LifecycleTransitionAudit.objects.create(...)
AuditEntry(user, et, eid, from, to, reason, override) ==
    [user |-> user, entity_type |-> et, entity_id |-> eid, from_state |-> from,
     to_state |-> to, reason |-> IF reason = None THEN "" ELSE reason,
     is_override |-> override]

(***************************************************************************)
(* lifecycle/utils.py                                                      *)
(***************************************************************************)
\* a truth value that takes every reason, None included, as given
TruthyAny(text) == TRUE

\* Python truth value of a reason text
Truthy(text) == text /= None /\ text /= ""

\* a final check against the wrong classification
is_state_final_locked(et, state_name) ==
    LET d == stateDef[<<et, state_name>>]
    IN d /= NoDef /\ d.is_active /\ d.state_type = "locked"

is_state_final(et, state_name) ==
    LET d == stateDef[<<et, state_name>>]
    IN d /= NoDef /\ d.is_active /\ d.state_type = "final"

is_state_locked(et, state_name) ==
    LET d == stateDef[<<et, state_name>>]
    IN d /= NoDef /\ d.is_active /\ d.state_type \in {"locked", "final"}

\* LifecycleTransitionRule.objects.get(..., is_active=True), or NoTransition
ActiveRule(et, from, to) ==
    LET r == transRule[<<et, from, to>>]
    IN IF r /= NoTransition /\ r.is_active THEN r ELSE NoTransition

\* can_transition that allows what no rule names (fail-open)
can_transition_open(et, from, to, user) ==
    IF from = to THEN FALSE
    ELSE IF is_state_final(et, from) THEN FALSE
    ELSE IF ActiveRule(et, from, to) = NoTransition THEN TRUE
    ELSE IF /\ ActiveRule(et, from, to).required_permission /= ""
            /\ user /= None
            /\ ~HasPerm(user, ActiveRule(et, from, to).required_permission)
    THEN FALSE
    ELSE TRUE

\* can_transition without the self-transition check
can_transition_self(et, from, to, user) ==
    IF is_state_final(et, from) THEN FALSE
    ELSE IF ActiveRule(et, from, to) = NoTransition THEN FALSE
    ELSE IF /\ ActiveRule(et, from, to).required_permission /= ""
            /\ user /= None
            /\ ~HasPerm(user, ActiveRule(et, from, to).required_permission)
    THEN FALSE
    ELSE TRUE

\* can_transition without the permission check
can_transition_unchecked(et, from, to, user) ==
    IF from = to THEN FALSE
    ELSE IF is_state_final(et, from) THEN FALSE
    ELSE IF ActiveRule(et, from, to) = NoTransition THEN FALSE
    ELSE TRUE

can_transition(et, from, to, user) ==
    IF from = to THEN FALSE
    ELSE IF is_state_final(et, from) THEN FALSE
    ELSE IF ActiveRule(et, from, to) = NoTransition THEN FALSE
    ELSE IF /\ ActiveRule(et, from, to).required_permission /= ""
            /\ user /= None
            /\ ~HasPerm(user, ActiveRule(et, from, to).required_permission)
    THEN FALSE
    ELSE TRUE

\* validate_transition: (is_valid, error_message)
validate_transition(et, from, to, reason, user) ==
    IF ~can_transition(et, from, to, user)
    THEN IF is_state_final(et, from)
         THEN [ok |-> FALSE, error |-> "Cannot transition from final state"]
         ELSE [ok |-> FALSE, error |-> "Transition not allowed"]
    ELSE IF ActiveRule(et, from, to) = NoTransition
    THEN [ok |-> FALSE, error |-> "Transition rule not found"]
    ELSE IF ActiveRule(et, from, to).requires_reason /\ ~Truthy(reason)
    THEN [ok |-> FALSE, error |-> "Reason is required for this transition"]
    ELSE [ok |-> TRUE, error |-> None]

\* get_default_state: the state_name, or the error raised.  objects.get
\* raises MultipleObjectsReturned when several rows match; only DoesNotExist
\* is caught.
get_default_state(et) ==
    LET found == {name \in StateNames :
                     LET d == stateDef[<<et, name>>]
                     IN d /= NoDef /\ d.is_default /\ d.is_active}
    IN IF found = {}
       THEN [raised |-> "MissingStateDefinitionError", state_name |-> None]
       ELSE IF Cardinality(found) > 1
       THEN [raised |-> "MultipleObjectsReturned", state_name |-> None]
       ELSE [raised |-> None, state_name |-> CHOOSE name \in found : TRUE]

\* get_allowed_transitions: the active rules that leave from_state
get_allowed_transitions(et, from) ==
    {k \in DOMAIN transRule :
        /\ k[1] = et /\ k[2] = from
        /\ transRule[k] /= NoTransition /\ transRule[k].is_active}

\* the lifecycle tables before any registration
InitTables ==
    /\ stateDef = [k \in LifeTypes \X StateNames |-> NoDef]
    /\ transRule = [k \in LifeTypes \X StateNames \X StateNames |-> NoTransition]
    /\ audit = <<>>
    /\ lifecycle_state = [eid \in LifeEntityIds |-> "draft"]
    /\ saver = [p \in Procs |-> NoSave]
    /\ began = [p \in Procs |-> 0]
    /\ queries = 0
    /\ lastQuery = NoQuery
    /\ instance = [p \in Procs |-> NoInstance]
    /\ lifeOps = 0
    /\ lastCall = NoCall

\* the rules a behaviour may start with: every reset policy with every
\* combination of the year and month flags, a disabled rule, and no rule
RuleChoices ==
    {Rule(TRUE, inclYear, inclMonth, reset) :
        inclYear \in BOOLEAN, inclMonth \in BOOLEAN, reset \in RESET_CHOICES}
    \cup {Rule(FALSE, TRUE, FALSE, "yearly"), NoRule}

\* the entity types the callers ask numbers for
CallTypes == {"invoice"}

InitNum ==
    /\ today = StartDate
    /\ \E rule \in RuleChoices :
          numberingRule = [et \in EntityTypes |->
              IF et \in CallTypes THEN rule ELSE NoRule]
    /\ seqRow = [et \in EntityTypes |-> NoRow]
    /\ lock = [et \in EntityTypes |-> None]
    /\ assigned = <<>>
    /\ proc = [p \in Procs |-> Idle]
    /\ history = <<>>
    /\ InitTables

NextNum ==
    \/ \E p \in Procs, op \in {"next", "generate"}, et \in CallTypes :
          Call(p, op, et, None)
    \/ \E p \in Procs, et \in CallTypes, eid \in EntityIds :
          Call(p, "assign", et, eid)
    \/ \E p \in Procs : AssignCheck(p)
    \/ \E p \in Procs : GenerateRule(p)
    \/ \E p \in Procs : get_or_create_sequence(p)
    \/ \E p \in Procs : PreLockReset(p)
    \/ \E p \in Procs : SelectForUpdate(p)
    \/ \E p \in Procs, storageFails \in BOOLEAN : LockedIncrement(p, storageFails)
    \/ \E p \in Procs : Format(p)
    \/ \E p \in Procs, storageFails \in BOOLEAN : CreateAssigned(p, storageFails)
    \/ \E date \in Calendar : Tick(date)

SpecNum == InitNum /\ [][NextNum]_vars

\* AssignedNumber.objects.get(entity_type, entity_id).number on `table`,
\* or None (DoesNotExist)
NumberIn(table, et, eid) ==
    IF \E i \in DOMAIN table :
          table[i].entity_type = et /\ table[i].entity_id = eid
    THEN (CHOOSE r \in {table[i] : i \in DOMAIN table} :
              r.entity_type = et /\ r.entity_id = eid).number
    ELSE NoNumber

\* get_assigned_number(entity_type, entity_id): the number, or None
get_assigned_number(et, eid) == NumberIn(assigned, et, eid)

(***************************************************************************)
(* Properties of the numbering engine                                      *)
(***************************************************************************)
Ok(h, ops) == h.outcome = "ok" /\ h.op \in ops

\* two clock readings lie in the same reset period of a rule
SamePeriod(rule, d1, d2) ==
    \/ rule.reset_behavior = "none"
    \/ rule.reset_behavior = "yearly" /\ d1.year = d2.year
    \/ rule.reset_behavior = "monthly" /\ d1.year = d2.year /\ d1.month = d2.month

\* C1: no two calls of get_next_sequence_value on one rule within one reset
\* period return the same integer, whatever the interleaving of the callers
C1_DistinctSequenceValues ==
    \A i, j \in DOMAIN history :
        ( /\ i < j
          /\ Ok(history[i], {"next"}) /\ Ok(history[j], {"next"})
          /\ history[i].et = history[j].et
          /\ SamePeriod(numberingRule[history[i].et], history[i].at, history[j].at) )
        => history[i].value /= history[j].value

\* C2: generate_number / assign_number never return the same formatted
\* number twice for one entity type
C2_NumbersNeverRepeat ==
    \A i, j \in DOMAIN history :
        ( /\ i < j
          /\ Ok(history[i], {"generate", "assign"})
          /\ Ok(history[j], {"generate", "assign"})
          /\ history[i].et = history[j].et )
        => history[i].number /= history[j].number

\* caller p evaluates the reset policy and writes the counter row in this
\* step: the reset (the object read is replaced) or the increment
WritesCounter(p) ==
    /\ proc[p].pc \in {"prereset", "incr"}
    /\ proc'[p].pc \in {"lock", "format", "idle"}
    /\ proc'[p].sequence /= proc[p].sequence \/ seqRow' /= seqRow

\* C3: every reset and every increment of the counter row is made by a
\* caller that already holds the row's lock
C3_CounterWritesUnderLock ==
    [][\A p \in Procs : WritesCounter(p) => lock[proc[p].et] = p]_vars

\* C4: no two AssignedNumber rows share (entity_type, number) or
\* (entity_type, entity_id)
C4_AssignedUnique ==
    \A i, j \in DOMAIN assigned :
        (i < j /\ assigned[i].entity_type = assigned[j].entity_type)
        => /\ assigned[i].number /= assigned[j].number
           /\ assigned[i].entity_id /= assigned[j].entity_id

C4_Witness ==
    /\ Len(assigned) >= 2
    /\ assigned[1].entity_type = assigned[2].entity_type

HasRow(et, eid) ==
    \E i \in DOMAIN assigned :
        assigned[i].entity_type = et /\ assigned[i].entity_id = eid

\* C5: assign_number for an entity that already has a number raises
\* ValidationError and changes nothing: the row, the number looked up and
\* the counter stay as they were
C5_SecondAssignChangesNothing ==
    [][\A p \in Procs :
          ( /\ proc[p].pc = "check"
            /\ HasRow(proc[p].et, proc[p].eid)
            /\ proc'[p] /= proc[p] )
          => /\ proc'[p] = Idle
             /\ history' = Append(history, Returned(p, "ValidationError", 0, NoNumber))
             /\ assigned' = assigned
             /\ seqRow' = seqRow
             /\ lock' = lock
             /\ NumberIn(assigned', proc[p].et, proc[p].eid)
                   = get_assigned_number(proc[p].et, proc[p].eid)
             /\ get_assigned_number(proc[p].et, proc[p].eid) /= NoNumber]_vars

C5_Witness ==
    \E i \in DOMAIN history :
        /\ history[i].op = "assign"
        /\ history[i].outcome = "ValidationError"
        /\ HasRow(history[i].et, history[i].eid)

OkAssigns(et, eid) ==
    {i \in DOMAIN history :
        Ok(history[i], {"assign"}) /\ history[i].et = et /\ history[i].eid = eid}

RowsOf(et, eid) ==
    {i \in DOMAIN assigned :
        assigned[i].entity_type = et /\ assigned[i].entity_id = eid}

\* C6: of the assign_number calls for one entity, concurrent or not, at most
\* one succeeds; the entity has exactly the row of the successful call and
\* every other call ended in an error
C6_AtMostOneAssignment ==
    \A et \in EntityTypes, eid \in EntityIds :
        /\ Cardinality(OkAssigns(et, eid)) <= 1
        /\ Cardinality(RowsOf(et, eid)) = Cardinality(OkAssigns(et, eid))
        /\ \A i \in OkAssigns(et, eid) :
              get_assigned_number(et, eid) = history[i].number

\* two calls for one entity overlapped: both passed the already-assigned
\* check, one created the row, the other failed on unique_entity_assignment
C6_Witness ==
    \E i, j \in DOMAIN history :
        /\ Ok(history[i], {"assign"})
        /\ history[j].op = "assign" /\ history[j].outcome = "IntegrityError"
        /\ history[i].et = history[j].et /\ history[i].eid = history[j].eid
        /\ numberingRule[history[i].et].reset_behavior = "none"
        /\ Cardinality(RowsOf(history[i].et, history[i].eid)) = 1

\* caller p's assign_number call returns in this step
AssignReturns(p) ==
    proc[p].op = "assign" /\ proc[p].pc /= "idle" /\ proc'[p].pc = "idle"

\* C7: the counter write and the AssignedNumber row of one assign_number
\* call are committed together or not at all
C7_CounterAndRowAtomic ==
    [][\A p \in Procs :
          /\ (proc[p].op = "assign" /\ proc'[p] /= proc[p] /\ ~AssignReturns(p))
                => (seqRow' = seqRow /\ assigned' = assigned)
          /\ AssignReturns(p) =>
                IF history'[Len(history')].outcome = "ok"
                THEN /\ assigned' = Append(assigned,
                            AssignedRow(proc[p].et, proc[p].eid, proc[p].number, UserOf(p)))
                     /\ seqRow'[proc[p].et] = proc[p].tx
                     /\ seqRow'[proc[p].et].current_value = proc[p].next_value
                ELSE /\ assigned' = assigned
                     /\ seqRow' = seqRow]_vars

\* a call failed while persisting the row, after its counter increment
C7_Witness ==
    /\ \E i \in DOMAIN history :
          history[i].op = "assign" /\ history[i].outcome = "DatabaseError"
    /\ \E i \in DOMAIN history : Ok(history[i], {"assign"})

(***************************************************************************)
(* Lifecycle operations                                                    *)
(***************************************************************************)
\* an administrator registers or edits a state definition
SaveStateDef(et, name, type, dflt, active) ==
    /\ lifeOps < MaxLifeOps
    /\ lifeOps' = lifeOps + 1
    /\ stateDef' = StateDefSaved(stateDef, et, name, StateDefRow(type, dflt, active))
    /\ lastCall' = NoCall
    /\ UNCHANGED <<transRule, audit, lifecycle_state, saver, began, queries, lastQuery, instance, numVars>>

\* a transition rule is registered or edited (save() does not call clean())
SaveTransitionRule(et, from, to, permission, reason, active) ==
    /\ lifeOps < MaxLifeOps
    /\ lifeOps' = lifeOps + 1
    /\ transRule' = [transRule EXCEPT ![<<et, from, to>>] =
                        TransitionRow(permission, reason, active)]
    /\ lastCall' = NoCall
    /\ UNCHANGED <<stateDef, audit, lifecycle_state, saver, began, queries, lastQuery, instance, numVars>>

\* perform_transition that writes the audit entry before it validates
perform_transition_audit_first(et, eid, from, to, user, reason, override) ==
    LET v == validate_transition(et, from, to, reason, user)
        call == [entity_type |-> et, entity_id |-> eid, from_state |-> from,
                 to_state |-> to, user |-> user, reason |-> reason,
                 is_override |-> override]
    IN /\ lifeOps < MaxLifeOps
       /\ lifeOps' = lifeOps + 1
       /\ audit' = Append(audit, AuditEntry(user, et, eid, from, to, reason, override))
       /\ lastCall' = IF v.ok
                      THEN [call |-> call, outcome |-> "ok", message |-> None]
                      ELSE [call |-> call, outcome |-> "InvalidTransitionError",
                            message |-> v.error]
       /\ UNCHANGED <<stateDef, transRule, lifecycle_state, saver, began, queries, lastQuery, instance, numVars>>

\* perform_transition that lets an override through without validation
perform_transition_override(et, eid, from, to, user, reason, override) ==
    LET v == validate_transition(et, from, to, reason, user)
        call == [entity_type |-> et, entity_id |-> eid, from_state |-> from,
                 to_state |-> to, user |-> user, reason |-> reason,
                 is_override |-> override]
    IN /\ lifeOps < MaxLifeOps
       /\ lifeOps' = lifeOps + 1
       /\ IF ~v.ok /\ ~override
          THEN /\ lastCall' = [call |-> call, outcome |-> "InvalidTransitionError",
                               message |-> v.error]
               /\ UNCHANGED audit
          ELSE /\ audit' = Append(audit,
                              AuditEntry(user, et, eid, from, to, reason, override))
               /\ lastCall' = [call |-> call, outcome |-> "ok", message |-> None]
       /\ UNCHANGED <<stateDef, transRule, lifecycle_state, saver, began, queries, lastQuery, instance, numVars>>

\* perform_transition: validate, then create the audit entry
perform_transition(et, eid, from, to, user, reason, override) ==
    LET v == validate_transition(et, from, to, reason, user)
        call == [entity_type |-> et, entity_id |-> eid, from_state |-> from,
                 to_state |-> to, user |-> user, reason |-> reason,
                 is_override |-> override]
    IN /\ lifeOps < MaxLifeOps
       /\ lifeOps' = lifeOps + 1
       /\ IF ~v.ok
          THEN /\ lastCall' = [call |-> call, outcome |-> "InvalidTransitionError",
                               message |-> v.error]
               /\ UNCHANGED audit
          ELSE /\ audit' = Append(audit,
                              AuditEntry(user, et, eid, from, to, reason, override))
               /\ lastCall' = [call |-> call, outcome |-> "ok", message |-> None]
       /\ UNCHANGED <<stateDef, transRule, lifecycle_state, saver, began, queries, lastQuery, instance, numVars>>

InitLife ==
    /\ today = StartDate
    /\ numberingRule = [et \in EntityTypes |-> NoRule]
    /\ seqRow = [et \in EntityTypes |-> NoRow]
    /\ lock = [et \in EntityTypes |-> None]
    /\ assigned = <<>>
    /\ proc = [p \in Procs |-> Idle]
    /\ history = <<>>
    /\ InitTables

NextLife ==
    \/ \E et \in LifeTypes, name \in StateNames, type \in STATE_TYPE_CHOICES,
          dflt \in BOOLEAN, active \in BOOLEAN :
          SaveStateDef(et, name, type, dflt, active)
    \/ \E et \in LifeTypes, from \in StateNames, to \in StateNames,
          permission \in Permissions, reason \in BOOLEAN, active \in BOOLEAN :
          SaveTransitionRule(et, from, to, permission, reason, active)
    \/ \E et \in LifeTypes, eid \in LifeEntityIds, from \in StateNames,
          to \in StateNames, user \in Users, reason \in Reasons,
          override \in BOOLEAN :
          perform_transition(et, eid, from, to, user, reason, override)

SpecLife == InitLife /\ [][NextLife]_vars

(***************************************************************************)
(* Properties of the lifecycle engine                                      *)
(***************************************************************************)
Principals == Users \cup {None}

\* perform_transition was called in this step
Performs == lifeOps' /= lifeOps /\ lastCall' /= NoCall

\* the state definition / rule row of the call made in this step, as the
\* tables held them when it was made
CallDef == stateDef[<<lastCall'.call.entity_type, lastCall'.call.from_state>>]
CallRule == transRule[<<lastCall'.call.entity_type, lastCall'.call.from_state,
                        lastCall'.call.to_state>>]

Refused ==
    /\ lastCall'.outcome = "InvalidTransitionError"
    /\ audit' = audit

\* C8: with no rule row for (entity_type, from_state, to_state),
\* can_transition is false for every principal and perform_transition is
\* refused
C8_DefaultDeny ==
    /\ [](\A et \in LifeTypes, from \in StateNames, to \in StateNames,
             user \in Principals :
             transRule[<<et, from, to>>] = NoTransition
             => ~can_transition(et, from, to, user))
    /\ [][(Performs /\ CallRule = NoTransition) => Refused]_vars

\* a transition between two different states, out of a state that is not
\* final, was refused for want of a rule while the table holds other rules
C8_Witness ==
    /\ lastCall /= NoCall
    /\ lastCall.outcome = "InvalidTransitionError"
    /\ lastCall.call.from_state /= lastCall.call.to_state
    /\ ~is_state_final(lastCall.call.entity_type, lastCall.call.from_state)
    /\ transRule[<<lastCall.call.entity_type, lastCall.call.from_state,
                   lastCall.call.to_state>>] = NoTransition
    /\ \E k \in DOMAIN transRule : transRule[k] /= NoTransition /\ transRule[k].is_active

\* C9, as claimed: a state whose definition is classified final, whatever
\* the definition's other attributes, has no allowed outgoing transition
C9_FinalHasNoOutgoing ==
    \A et \in LifeTypes, from \in StateNames, to \in StateNames,
       user \in Principals, reason \in Reasons :
       (stateDef[<<et, from>>] /= NoDef /\ stateDef[<<et, from>>].state_type = "final")
       => /\ ~can_transition(et, from, to, user)
          /\ ~validate_transition(et, from, to, reason, user).ok

\* C9, amended: a state whose active definition is classified final has no
\* allowed outgoing transition, whatever the rule table holds and whatever
\* the definition's default flag
C9_ActiveFinalHasNoOutgoing ==
    /\ [](\A et \in LifeTypes, from \in StateNames, to \in StateNames,
             user \in Principals, reason \in Reasons :
             ( /\ stateDef[<<et, from>>] /= NoDef
               /\ stateDef[<<et, from>>].state_type = "final"
               /\ stateDef[<<et, from>>].is_active )
             => /\ ~can_transition(et, from, to, user)
                /\ ~validate_transition(et, from, to, reason, user).ok)
    /\ [][(Performs /\ CallDef /= NoDef /\ CallDef.state_type = "final"
              /\ CallDef.is_active) => Refused]_vars

\* a transition out of an active final state was refused although an active
\* rule without preconditions names it
C9_Witness ==
    /\ lastCall /= NoCall
    /\ lastCall.outcome = "InvalidTransitionError"
    /\ lastCall.message = "Cannot transition from final state"
    /\ lastCall.call.from_state /= lastCall.call.to_state
    /\ LET r == transRule[<<lastCall.call.entity_type, lastCall.call.from_state,
                            lastCall.call.to_state>>]
       IN r /= NoTransition /\ r.is_active /\ r.required_permission = ""
          /\ ~r.requires_reason

\* C10: a transition from a state to itself is denied by can_transition,
\* validate_transition and perform_transition, whatever the rule table holds
C10_SelfTransitionDenied ==
    /\ [](\A et \in LifeTypes, s \in StateNames, user \in Principals,
             reason \in Reasons :
             /\ ~can_transition(et, s, s, user)
             /\ ~validate_transition(et, s, s, reason, user).ok)
    /\ [][(Performs /\ lastCall'.call.from_state = lastCall'.call.to_state)
             => Refused]_vars

\* a self-transition was refused although an active rule row without
\* preconditions names it and the state is not final
C10_Witness ==
    /\ lastCall /= NoCall
    /\ lastCall.outcome = "InvalidTransitionError"
    /\ lastCall.call.from_state = lastCall.call.to_state
    /\ ~is_state_final(lastCall.call.entity_type, lastCall.call.from_state)
    /\ LET r == transRule[<<lastCall.call.entity_type, lastCall.call.from_state,
                            lastCall.call.to_state>>]
       IN r /= NoTransition /\ r.is_active /\ r.required_permission = ""
          /\ ~r.requires_reason

\* validate_transition on the arguments of the call made in this step, in
\* the tables as the call found them
CallValidation ==
    validate_transition(lastCall'.call.entity_type, lastCall'.call.from_state,
                        lastCall'.call.to_state, lastCall'.call.reason,
                        lastCall'.call.user)

\* C11: perform_transition on a transition that validation denies raises
\* InvalidTransitionError and leaves the audit table exactly as it was
C11_DeniedLeavesNoAudit ==
    [][(Performs /\ ~CallValidation.ok)
          => /\ lastCall'.outcome = "InvalidTransitionError"
             /\ lastCall'.message = CallValidation.error
             /\ audit' = audit]_vars

\* a call was denied while the audit table already held an entry
C11_Witness ==
    /\ lastCall /= NoCall
    /\ lastCall.outcome = "InvalidTransitionError"
    /\ Len(audit) >= 1

\* the audit entry whose fields are the arguments of the call, the reason
\* as passed
EntryOfArguments(call) ==
    [user |-> call.user, entity_type |-> call.entity_type,
     entity_id |-> call.entity_id, from_state |-> call.from_state,
     to_state |-> call.to_state, reason |-> call.reason,
     is_override |-> call.is_override]

\* C12, as claimed: a successful perform_transition appends exactly one
\* audit entry whose fields, the reason included, equal the call's arguments
C12_AuditEqualsArguments ==
    [][(Performs /\ lastCall'.outcome = "ok")
          => audit' = Append(audit, EntryOfArguments(lastCall'.call))]_vars

\* C12, amended: a successful perform_transition appends exactly one audit
\* entry whose fields equal the call's arguments, a reason of None being
\* stored as the empty string, and leaves the earlier entries unchanged
C12_AuditRecordsCall ==
    [][(Performs /\ lastCall'.outcome = "ok")
          => /\ Len(audit') = Len(audit) + 1
             /\ \A i \in DOMAIN audit : audit'[i] = audit[i]
             /\ audit'[Len(audit')] =
                   [EntryOfArguments(lastCall'.call) EXCEPT
                       !.reason = IF lastCall'.call.reason = None THEN ""
                                  ELSE lastCall'.call.reason]]_vars

\* a second successful transition, flagged as an override and with a reason,
\* was audited after an earlier one
C12_Witness ==
    /\ lastCall /= NoCall
    /\ lastCall.outcome = "ok"
    /\ lastCall.call.is_override
    /\ lastCall.call.reason = "because"
    /\ Len(audit) >= 2

\* C16: when the active rule names a permission and a principal is supplied
\* who does not hold it, can_transition is false and perform_transition is
\* refused without an audit entry; when the rule names no permission the
\* decision is the same for every principal
C16_PermissionRequired ==
    /\ [](\A et \in LifeTypes, from \in StateNames, to \in StateNames :
             LET r == transRule[<<et, from, to>>]
             IN (r /= NoTransition /\ r.is_active)
                => /\ \A user \in Users :
                        (r.required_permission /= ""
                         /\ ~HasPerm(user, r.required_permission))
                        => ~can_transition(et, from, to, user)
                   /\ r.required_permission = ""
                        => \A u1, u2 \in Principals :
                              can_transition(et, from, to, u1)
                                 = can_transition(et, from, to, u2))
    /\ [][(Performs /\ CallRule /= NoTransition /\ CallRule.is_active
              /\ CallRule.required_permission /= ""
              /\ ~HasPerm(lastCall'.call.user, CallRule.required_permission))
             => Refused]_vars

\* a principal without the permission was refused on an edge that an active
\* rule allows to the holders of the permission
C16_Witness ==
    /\ lastCall /= NoCall
    /\ lastCall.outcome = "InvalidTransitionError"
    /\ lastCall.call.from_state /= lastCall.call.to_state
    /\ ~is_state_final(lastCall.call.entity_type, lastCall.call.from_state)
    /\ LET r == transRule[<<lastCall.call.entity_type, lastCall.call.from_state,
                            lastCall.call.to_state>>]
       IN /\ r /= NoTransition /\ r.is_active
          /\ r.required_permission = "approve"
          /\ ~r.requires_reason
          /\ ~HasPerm(lastCall.call.user, "approve")
          /\ can_transition(lastCall.call.entity_type, lastCall.call.from_state,
                            lastCall.call.to_state, "alice")

\* C17: on an edge whose active rule requires a reason and which
\* can_transition allows, validate_transition rejects a call without a
\* reason and accepts one with a reason, and perform_transition follows it
C17_ReasonRequired ==
    /\ [](\A et \in LifeTypes, from \in StateNames, to \in StateNames,
             user \in Principals :
             LET r == transRule[<<et, from, to>>]
             IN (r /= NoTransition /\ r.is_active /\ r.requires_reason
                 /\ can_transition(et, from, to, user))
                => /\ ~validate_transition(et, from, to, None, user).ok
                   /\ validate_transition(et, from, to, "because", user).ok)
    /\ [][(Performs /\ CallRule /= NoTransition /\ CallRule.is_active
              /\ CallRule.requires_reason
              /\ can_transition(lastCall'.call.entity_type, lastCall'.call.from_state,
                                lastCall'.call.to_state, lastCall'.call.user))
             => IF lastCall'.call.reason = None
                THEN Refused /\ lastCall'.message = "Reason is required for this transition"
                ELSE lastCall'.outcome = "ok"]_vars

\* a call without a reason was refused on an edge that can_transition allows
C17_Witness ==
    /\ lastCall /= NoCall
    /\ lastCall.outcome = "InvalidTransitionError"
    /\ lastCall.message = "Reason is required for this transition"
    /\ lastCall.call.reason = None
    /\ can_transition(lastCall.call.entity_type, lastCall.call.from_state,
                      lastCall.call.to_state, lastCall.call.user)

\* the state names of an entity type whose definition is flagged default
Defaults(table, et) ==
    {name \in StateNames : table[<<et, name>>] /= NoDef
                           /\ table[<<et, name>>].is_default}

\* C18: after any sequence of state-definition saves at most one definition
\* of an entity type is the default, and a definition saved as default is
\* the only default
C18_AtMostOneDefault ==
    /\ [](\A et \in LifeTypes : Cardinality(Defaults(stateDef, et)) <= 1)
    /\ [][\A et \in LifeTypes, name \in StateNames, type \in STATE_TYPE_CHOICES,
             active \in BOOLEAN :
             SaveStateDef(et, name, type, TRUE, active)
                => Defaults(stateDef', et) = {name}]_vars

\* both definitions are registered and the second one is the default
C18_Witness ==
    /\ \A name \in StateNames : stateDef[<<"order", name>>] /= NoDef
    /\ Defaults(stateDef, "order") = {"closed"}

(***************************************************************************)
(* Entity records and the audit trail                                      *)
(***************************************************************************)
\* the entity_type attribute of an entity's class
EntityTypeOf(eid) == "order"

\* LifecycleTransitionMixin.perform_lifecycle_transition: the locked check,
\* perform_transition (committed when it returns), then the update and
\* save of the entity record (saveFails: the save raises)
perform_lifecycle_transition(eid, to, user, reason, override, saveFails) ==
    LET et == EntityTypeOf(eid)
        from == lifecycle_state[eid]
        v == validate_transition(et, from, to, reason, user)
        call == [entity_type |-> et, entity_id |-> eid, from_state |-> from,
                 to_state |-> to, user |-> user, reason |-> reason,
                 is_override |-> override]
    IN /\ lifeOps < MaxEntityOps
       /\ lifeOps' = lifeOps + 1
       /\ IF is_state_locked(et, from)
          THEN /\ lastCall' = [call |-> call, outcome |-> "LockedStateError",
                               message |-> "Cannot modify entity in locked state"]
               /\ UNCHANGED <<audit, lifecycle_state>>
          ELSE IF ~v.ok
          THEN /\ lastCall' = [call |-> call, outcome |-> "InvalidTransitionError",
                               message |-> v.error]
               /\ UNCHANGED <<audit, lifecycle_state>>
          ELSE /\ audit' = Append(audit,
                              AuditEntry(user, et, eid, from, to, reason, override))
               /\ IF saveFails
                  THEN /\ lastCall' = [call |-> call, outcome |-> "DatabaseError",
                                       message |-> None]
                       /\ UNCHANGED lifecycle_state
                  ELSE /\ lastCall' = [call |-> call, outcome |-> "ok",
                                       message |-> None]
                       /\ lifecycle_state' = [lifecycle_state EXCEPT ![eid] = to]
       /\ UNCHANGED <<stateDef, transRule, saver, began, queries, lastQuery, instance, numVars>>

\* the instance of a persisted audit entry after the caller edited its reason
Edited(entry) == [entry EXCEPT !.reason = "edited"]

\* a save that writes the instance over the stored entry
AuditSaveUnguarded(pk, clearPk) ==
    /\ lifeOps < MaxEntityOps
    /\ pk \in DOMAIN audit
    /\ lifeOps' = lifeOps + 1
    /\ audit' = [audit EXCEPT ![pk] = Edited(audit[pk])]
    /\ lastCall' = [call |-> [op |-> "save", pk |-> IF clearPk THEN None ELSE pk],
                    outcome |-> "ok", message |-> None]
    /\ UNCHANGED <<stateDef, transRule, lifecycle_state, saver, began, queries, lastQuery, instance, numVars>>

\* LifecycleTransitionAudit.save on the edited instance of entry pk: refused
\* when the instance has a pk; an instance whose pk was cleared is inserted
\* as a new entry
AuditSave(pk, clearPk) ==
    /\ lifeOps < MaxEntityOps
    /\ pk \in DOMAIN audit
    /\ lifeOps' = lifeOps + 1
    /\ IF ~clearPk
       THEN /\ lastCall' = [call |-> [op |-> "save", pk |-> pk],
                            outcome |-> "ValidationError",
                            message |-> "Lifecycle audit entries are immutable and cannot be modified"]
            /\ UNCHANGED audit
       ELSE /\ audit' = Append(audit, Edited(audit[pk]))
            /\ lastCall' = [call |-> [op |-> "save", pk |-> None],
                            outcome |-> "ok", message |-> None]
    /\ UNCHANGED <<stateDef, transRule, lifecycle_state, saver, began, queries, lastQuery, instance, numVars>>

\* LifecycleTransitionAudit.delete: always refused
AuditDelete(pk) ==
    /\ lifeOps < MaxEntityOps
    /\ pk \in DOMAIN audit
    /\ lifeOps' = lifeOps + 1
    /\ lastCall' = [call |-> [op |-> "delete", pk |-> pk],
                    outcome |-> "ValidationError",
                    message |-> "Lifecycle audit entries are immutable and cannot be deleted"]
    /\ UNCHANGED <<stateDef, transRule, audit, lifecycle_state, saver, began, queries, lastQuery, instance, numVars>>

\* the registrations an entity type may start with: both states defined
\* and active, of any classification, the first one the default
StateDefChoices ==
    {[k \in LifeTypes \X StateNames |->
         StateDefRow(IF k[2] = "draft" THEN t1 ELSE t2, k[2] = "draft", TRUE)] :
        t1 \in STATE_TYPE_CHOICES, t2 \in STATE_TYPE_CHOICES}

\* each edge between the two states without a rule, or with an active rule
\* with or without a precondition
TransitionChoices ==
    LET rows == {NoTransition, TransitionRow("", FALSE, TRUE),
                 TransitionRow("approve", FALSE, TRUE), TransitionRow("", TRUE, TRUE)}
    IN {[k \in LifeTypes \X StateNames \X StateNames |->
            IF k[2] = k[3] THEN NoTransition
            ELSE IF k[2] = "draft" THEN r1 ELSE r2] : r1 \in rows, r2 \in rows}

InitEntity ==
    /\ today = StartDate
    /\ numberingRule = [et \in EntityTypes |-> NoRule]
    /\ seqRow = [et \in EntityTypes |-> NoRow]
    /\ lock = [et \in EntityTypes |-> None]
    /\ assigned = <<>>
    /\ proc = [p \in Procs |-> Idle]
    /\ history = <<>>
    /\ stateDef \in StateDefChoices
    /\ transRule \in TransitionChoices
    /\ audit = <<>>
    /\ lifecycle_state = [eid \in LifeEntityIds |-> "draft"]
    /\ saver = [p \in Procs |-> NoSave]
    /\ began = [p \in Procs |-> 0]
    /\ queries = 0
    /\ lastQuery = NoQuery
    /\ instance = [p \in Procs |-> NoInstance]
    /\ lifeOps = 0
    /\ lastCall = NoCall

NextEntity ==
    \/ \E eid \in LifeEntityIds, to \in StateNames, user \in Users,
          reason \in Reasons, override \in BOOLEAN, saveFails \in BOOLEAN :
          perform_lifecycle_transition(eid, to, user, reason, override, saveFails)
    \/ \E pk \in DOMAIN audit, clearPk \in BOOLEAN : AuditSave(pk, clearPk)
    \/ \E pk \in DOMAIN audit : AuditDelete(pk)

SpecEntity == InitEntity /\ [][NextEntity]_vars

(***************************************************************************)
(* Properties of entity records and the audit trail                        *)
(***************************************************************************)
\* C13: an audit entry, once persisted, stays in the table with the same
\* field values in every later state; saving a changed entry and deleting
\* an entry raise ValidationError and leave the table as it was
C13_AuditAppendOnly ==
    /\ [][\A i \in DOMAIN audit :
             i \in DOMAIN audit' /\ audit'[i] = audit[i]]_vars
    /\ [][\A pk \in DOMAIN audit :
             (AuditSave(pk, FALSE) \/ AuditDelete(pk))
                => /\ lastCall'.outcome = "ValidationError"
                   /\ audit' = audit]_vars

\* the save of an edited audit entry was refused
C13_Witness ==
    /\ lastCall /= NoCall
    /\ lastCall.message = "Lifecycle audit entries are immutable and cannot be modified"
    /\ Len(audit) >= 1
    /\ \A i \in DOMAIN audit : audit[i].reason /= "edited"

\* the state definition of an entity's current state is classified locked
InLockedState(eid) ==
    LET d == stateDef[<<EntityTypeOf(eid), lifecycle_state[eid]>>]
    IN d /= NoDef /\ d.is_active /\ d.state_type = "locked"

\* C15: a transition requested through perform_lifecycle_transition for an
\* entity in a locked state is evaluated as from a normal state: when
\* validation admits it, it is audited and not refused
C15_LockedTransitionsEvaluated ==
    [][\A eid \in LifeEntityIds, to \in StateNames, user \in Users,
          reason \in Reasons, override \in BOOLEAN, saveFails \in BOOLEAN :
          ( /\ perform_lifecycle_transition(eid, to, user, reason, override, saveFails)
            /\ InLockedState(eid)
            /\ validate_transition(EntityTypeOf(eid), lifecycle_state[eid], to,
                                   reason, user).ok )
          => /\ audit' = Append(audit,
                   AuditEntry(user, EntityTypeOf(eid), eid, lifecycle_state[eid],
                              to, reason, override))
             /\ lastCall'.outcome /= "LockedStateError"]_vars

(***************************************************************************)
(* Saving and deleting AssignedNumber records                              *)
(***************************************************************************)
\* the force_insert keyword of a save() call: not passed, True or False
ForceInsertArgs == {"absent", "True", "False"}

\* the number a caller may put on the instance of row i before saving it
NumberEdits(i) == {<<"X">>} \cup {assigned[j].number : j \in DOMAIN assigned}

\* the record of a save() or delete() call on the instance of row i
Attempt(op, i, outcome, number) ==
    [op |-> op, et |-> assigned[i].entity_type, eid |-> assigned[i].entity_id,
     outcome |-> outcome, value |-> 0, number |-> number, at |-> NoDate]

\* AssignedNumber.save(**kwargs) on the instance of the persisted row i whose
\* number was set to `number`.  The immutability check runs only when
\* 'force_insert' is not among the keyword arguments; otherwise the call
\* goes on to Model.save: force_insert=True inserts a second row with the
\* same primary key, which the store refuses; force_insert=False updates
\* the row, subject to unique_number_per_entity_type.
SaveAssigned(i, number, force_insert) ==
    LET row == [assigned[i] EXCEPT !.number = number]
        taken == \E j \in DOMAIN assigned :
                    /\ j /= i
                    /\ assigned[j].entity_type = row.entity_type
                    /\ assigned[j].number = row.number
    IN /\ Started < MaxCalls
       /\ i \in DOMAIN assigned
       /\ IF force_insert = "absent"
          THEN /\ history' = Append(history, Attempt("save", i, "ValidationError", number))
               /\ UNCHANGED assigned
          ELSE IF force_insert = "True" \/ taken
          THEN /\ history' = Append(history, Attempt("save", i, "IntegrityError", number))
               /\ UNCHANGED assigned
          ELSE /\ assigned' = [assigned EXCEPT ![i] = row]
               /\ history' = Append(history, Attempt("save", i, "ok", number))
       /\ UNCHANGED <<today, numberingRule, seqRow, lock, proc, lifeVars>>

\* AssignedNumber.delete: always refused
DeleteAssigned(i) ==
    /\ Started < MaxCalls
    /\ i \in DOMAIN assigned
    /\ history' = Append(history,
                         Attempt("delete", i, "ValidationError", assigned[i].number))
    /\ UNCHANGED <<today, numberingRule, seqRow, lock, assigned, proc, lifeVars>>

\* one caller assigns numbers; records are then saved again or deleted
NextAssigned ==
    \/ \E eid \in EntityIds : Call("p1", "assign", "invoice", eid)
    \/ AssignCheck("p1")
    \/ GenerateRule("p1")
    \/ get_or_create_sequence("p1")
    \/ PreLockReset("p1")
    \/ SelectForUpdate("p1")
    \/ \E storageFails \in BOOLEAN : LockedIncrement("p1", storageFails)
    \/ Format("p1")
    \/ \E storageFails \in BOOLEAN : CreateAssigned("p1", storageFails)
    \/ \E i \in DOMAIN assigned, force_insert \in ForceInsertArgs :
          \E number \in NumberEdits(i) : SaveAssigned(i, number, force_insert)
    \/ \E i \in DOMAIN assigned : DeleteAssigned(i)

SpecAssigned == InitNum /\ [][NextAssigned]_vars

\* C14: an AssignedNumber, once created, stays in the table with the same
\* field values in every later state, whatever save() and delete() calls
\* are made on it and whatever arguments save() is given
C14_AssignedImmutable ==
    [][\A i \in DOMAIN assigned :
          i \in DOMAIN assigned' /\ assigned'[i] = assigned[i]]_vars

(***************************************************************************)
(* Concurrent saves of state definitions                                   *)
(* LifecycleStateDef.save runs two statements, each committed on its own:  *)
(* the update that clears the other defaults, then Model.save of the row.  *)
(***************************************************************************)
\* filter(entity_type, is_default=True).exclude(pk=self.pk)
\*    .update(is_default=False)
DefaultsCleared(table, et, name) ==
    [k \in DOMAIN table |->
        IF k /= <<et, name>> /\ k[1] = et /\ table[k] /= NoDef /\ table[k].is_default
        THEN [table[k] EXCEPT !.is_default = FALSE]
        ELSE table[k]]

\* an administrator calls save() on a state definition: a new instance when
\* no row exists for (entity_type, state_name), else the loaded row edited
BeginSave(p, et, name, type, dflt, active) ==
    /\ saver[p] = NoSave
    /\ lifeOps < MaxSaves
    /\ lifeOps' = lifeOps + 1
    /\ saver' = [saver EXCEPT ![p] =
                    [pc |-> "clear", entity_type |-> et, state_name |-> name,
                     row |-> StateDefRow(type, dflt, active),
                     adding |-> stateDef[<<et, name>>] = NoDef]]
    /\ UNCHANGED <<stateDef, transRule, audit, lifecycle_state, lastCall, began, queries, lastQuery, instance, numVars>>

\* save, lines 82-87: a default definition clears the other defaults
ClearOtherDefaults(p) ==
    /\ saver[p] /= NoSave
    /\ saver[p].pc = "clear"
    /\ stateDef' = IF saver[p].row.is_default
                   THEN DefaultsCleared(stateDef, saver[p].entity_type,
                                        saver[p].state_name)
                   ELSE stateDef
    /\ saver' = [saver EXCEPT ![p].pc = "write"]
    /\ UNCHANGED <<transRule, audit, lifecycle_state, lifeOps, lastCall, began, queries, lastQuery, instance, numVars>>

\* save, line 88: super().save() inserts the new row, refused by
\* unique_entity_state when the row was created meanwhile, or updates it
SuperSave(p) ==
    LET k == <<saver[p].entity_type, saver[p].state_name>>
    IN /\ saver[p] /= NoSave
       /\ saver[p].pc = "write"
       /\ stateDef' = IF saver[p].adding /\ stateDef[k] /= NoDef
                      THEN stateDef
                      ELSE [stateDef EXCEPT ![k] = saver[p].row]
       /\ saver' = [saver EXCEPT ![p] = NoSave]
       /\ UNCHANGED <<transRule, audit, lifecycle_state, lifeOps, lastCall, began, queries, lastQuery, instance, numVars>>

NextDefault ==
    \/ \E p \in Procs, et \in LifeTypes, name \in StateNames,
          type \in {"normal", "final"}, dflt \in BOOLEAN :
          BeginSave(p, et, name, type, dflt, TRUE)
    \/ \E p \in Procs : ClearOtherDefaults(p)
    \/ \E p \in Procs : SuperSave(p)

SpecDefault == InitLife /\ [][NextDefault]_vars

\* C19: when state definitions of one entity type are saved concurrently
\* as default, no reachable state has two definitions of that entity type
\* flagged default
C19_NoTwoDefaults ==
    \A et \in LifeTypes : Cardinality(Defaults(stateDef, et)) <= 1

(***************************************************************************)
(* The sequence counter on an existing row                                 *)
(***************************************************************************)
\* the counter values a behaviour may start with
StartValues == {0, 4}

\* the rule's NumberSequence row exists: never reset, or reset this month
InitCounter ==
    /\ today = StartDate
    /\ \E reset \in RESET_CHOICES :
          numberingRule = [et \in EntityTypes |->
              IF et \in CallTypes THEN Rule(TRUE, TRUE, FALSE, reset) ELSE NoRule]
    /\ \E v \in StartValues, d \in {NoDate, StartDate} :
          seqRow = [et \in EntityTypes |->
              IF et \in CallTypes
              THEN [current_value |-> v, last_reset_date |-> d] ELSE NoRow]
    /\ lock = [et \in EntityTypes |-> None]
    /\ assigned = <<>>
    /\ proc = [p \in Procs |-> Idle]
    /\ history = <<>>
    /\ InitTables

\* callers of get_next_sequence_value only
NextCounter ==
    \/ \E p \in Procs, et \in CallTypes : Call(p, "next", et, None)
    \/ \E p \in Procs : get_or_create_sequence(p)
    \/ \E p \in Procs : PreLockReset(p)
    \/ \E p \in Procs : SelectForUpdate(p)
    \/ \E p \in Procs, storageFails \in BOOLEAN : LockedIncrement(p, storageFails)
    \/ \E date \in Calendar : Tick(date)

SpecCounter == InitCounter /\ [][NextCounter]_vars

\* the calls of get_next_sequence_value on et that returned an integer
Returns(et) ==
    {i \in DOMAIN history : Ok(history[i], {"next"}) /\ history[i].et = et}

\* no reset of et's counter is due: the policy finds nothing to reset
NoResetDue(et) ==
    ~check_reset_needed(numberingRule[et], seqRow[et], today).reset

\* C20: when callers invoke get_next_sequence_value concurrently on a rule
\* whose counter holds v and for which no reset is due, then, as long as
\* the clock stays in that reset period, the N integers returned are exactly
\* v+1 .. v+N and the counter holds v+N
C20_NoGapsNoDuplicates ==
    \A et \in CallTypes, v \in StartValues :
        (seqRow[et].current_value = v /\ NoResetDue(et))
        => [](SamePeriod(numberingRule[et], StartDate, today)
                => /\ {history[i].value : i \in Returns(et)}
                         = (v + 1) .. (v + Cardinality(Returns(et)))
                   /\ seqRow[et].current_value = v + Cardinality(Returns(et)))

\* every call started has returned an integer, on a yearly rule whose
\* counter was reset earlier this year
C20_Witness ==
    /\ Cardinality(Returns("invoice")) = MaxCalls
    /\ numberingRule["invoice"].reset_behavior = "yearly"
    /\ seqRow["invoice"].current_value > MaxCalls

(***************************************************************************)
(* Calls of get_next_sequence_value ordered in real time                   *)
(***************************************************************************)
\* total number of get_next_sequence_value calls in one behaviour
MaxOrdered == 3

\* a caller starts get_next_sequence_value(rule); the number of calls that
\* have returned by then is kept, to tell which calls completed before
CallNext(p, et) ==
    /\ proc[p].pc = "idle"
    /\ Started < MaxOrdered
    /\ numberingRule[et] /= NoRule
    /\ proc' = [proc EXCEPT ![p] =
                  [Idle EXCEPT !.op = "next", !.et = et, !.pc = "getseq"]]
    /\ began' = [began EXCEPT ![p] = Len(history)]
    /\ UNCHANGED <<today, numberingRule, seqRow, lock, assigned, history,
                   stateDef, transRule, audit, lifecycle_state, saver,
                   lifeOps, queries, lastQuery, instance, lastCall>>

NextOrdered ==
    \/ \E p \in Procs, et \in CallTypes : CallNext(p, et)
    \/ \E p \in Procs : get_or_create_sequence(p)
    \/ \E p \in Procs : PreLockReset(p)
    \/ \E p \in Procs : SelectForUpdate(p)
    \/ \E p \in Procs, storageFails \in BOOLEAN : LockedIncrement(p, storageFails)
    \/ \E date \in Calendar : Tick(date)

SpecOrdered == InitCounter /\ [][NextOrdered]_vars

\* caller p's call returns an integer in this step
ReturnsInteger(p) ==
    /\ proc[p].pc = "incr" /\ proc'[p].pc = "idle"
    /\ history'[Len(history')].outcome = "ok"

\* C21: a call of get_next_sequence_value that begins after another call on
\* the same rule has completed, with no reset boundary between the two,
\* returns a strictly larger integer, whatever other callers do meanwhile
C21_OrderedCallsIncrease ==
    [][\A p \in Procs :
          ReturnsInteger(p) =>
             \A i \in 1 .. began[p] :
                ( /\ Ok(history[i], {"next"})
                  /\ history[i].et = proc[p].et
                  /\ SamePeriod(numberingRule[proc[p].et], history[i].at, today) )
                => history[i].value < history'[Len(history')].value]_vars

\* exactly one call has been made and it returned an integer
OneCallAlone ==
    /\ Len(history) = 1
    /\ Ok(history[1], {"next"})
    /\ \A p \in Procs : proc[p].pc = "idle"

\* the stored date d lies in another reset period than the clock reading
PeriodDiffers(rule, d, now) ==
    \/ rule.reset_behavior = "yearly" /\ d.year /= now.year
    \/ rule.reset_behavior = "monthly"
          /\ (d.year /= now.year \/ d.month /= now.month)

\* C22: a call of get_next_sequence_value, running alone on a row that holds
\* counter v and reset date d: under a yearly policy with d in another year,
\* or a monthly policy with d in another year or month, the counter is reset
\* (last_reset_date becomes a date of the current period) and the call
\* returns 1; under policy none, or with d in the current period, nothing is
\* reset and the call returns v + 1
C22_ResetThenIncrement ==
    \A et \in CallTypes, v \in StartValues, d \in Calendar \cup {NoDate} :
        (seqRow[et] = [current_value |-> v, last_reset_date |-> d])
        => [](OneCallAlone =>
                LET rule == numberingRule[et]
                    now == history[1].at
                    row == seqRow[et]
                IN /\ (d /= NoDate /\ PeriodDiffers(rule, d, now))
                      => /\ history[1].value = 1
                         /\ row.current_value = 1
                         /\ row.last_reset_date /= NoDate
                         /\ ~PeriodDiffers(rule, row.last_reset_date, now)
                   /\ (rule.reset_behavior = "none"
                         \/ (d /= NoDate /\ ~PeriodDiffers(rule, d, now)))
                      => /\ history[1].value = v + 1
                         /\ row = [current_value |-> v + 1, last_reset_date |-> d])

\* a yearly counter stored at 4 in 2025 was reset by a call made in 2026
C22_Witness ==
    /\ OneCallAlone
    /\ numberingRule["invoice"].reset_behavior = "yearly"
    /\ history[1].at.year = 2026
    /\ history[1].value = 1
    /\ seqRow["invoice"].last_reset_date.year = 2026

\* C23: generate_number / assign_number for an entity type without a rule
\* raise NoRuleDefinedError, and with a disabled rule NumberingDisabledError;
\* the call has written nothing and the NumberSequence and AssignedNumber
\* tables stay as they were
C23_NoRuleOrDisabledRefused ==
    [][\A p \in Procs :
          LET rule == numberingRule[proc[p].et]
          IN ( /\ proc[p].pc = "rule"
               /\ proc'[p] /= proc[p]
               /\ (rule = NoRule \/ ~rule.is_enabled) )
             => /\ proc'[p] = Idle
                /\ history' = Append(history,
                      Returned(p, IF rule = NoRule THEN "NoRuleDefinedError"
                                  ELSE "NumberingDisabledError", 0, NoNumber))
                /\ proc[p].tx = NoWrite
                /\ seqRow' = seqRow
                /\ assigned' = assigned
                /\ lock' = lock]_vars

\* assign_number was refused on a disabled rule whose counter row exists
C23_Witness ==
    /\ \E i \in DOMAIN history :
          history[i].op = "assign" /\ history[i].outcome = "NumberingDisabledError"
    /\ seqRow["invoice"] /= NoRow

\* the number caller p is about to record is already recorded for the type
NumberRecorded(p) ==
    \E i \in DOMAIN assigned :
        /\ assigned[i].entity_type = proc[p].et
        /\ assigned[i].number = proc[p].number

\* C24: when assign_number has computed a number that is already recorded
\* for the entity type, its write fails with DuplicateNumberError and the
\* AssignedNumber table keeps exactly the rows it had
C24_DuplicateNumberError ==
    [][\A p \in Procs :
          (proc[p].pc = "create" /\ proc'[p] /= proc[p] /\ NumberRecorded(p))
          => /\ history' = Append(history,
                   Returned(p, "DuplicateNumberError", 0, NoNumber))
             /\ assigned' = assigned]_vars

(***************************************************************************)
(* The format of generated numbers                                         *)
(***************************************************************************)
\* the rules a behaviour may start with: with and without prefix, year (in
\* either year_format), month and delimiter, sequence_length 3 or 6
FormatRules ==
    {[Rule(TRUE, inclYear, inclMonth, "none")
         EXCEPT !.prefix = prefix, !.year_format = yf,
                !.sequence_length = width, !.delimiter = delimiter] :
        inclYear \in BOOLEAN, inclMonth \in BOOLEAN,
        prefix \in {<<>>, <<"I", "N", "V">>}, yf \in {"YYYY", "YY"},
        width \in {3, 6}, delimiter \in {<<>>, <<"-">>}}

\* the counter values a behaviour may start with
FormatStartValues == {4, 122, 999}

\* the clock readings a behaviour may start with
FormatDates == {Date(2005, 3), Date(2026, 11)}

InitFormat ==
    /\ today \in FormatDates
    /\ \E rule \in FormatRules :
          numberingRule = [et \in EntityTypes |->
              IF et \in CallTypes THEN rule ELSE NoRule]
    /\ \E v \in FormatStartValues :
          seqRow = [et \in EntityTypes |->
              IF et \in CallTypes
              THEN [current_value |-> v, last_reset_date |-> NoDate] ELSE NoRow]
    /\ lock = [et \in EntityTypes |-> None]
    /\ assigned = <<>>
    /\ proc = [p \in Procs |-> Idle]
    /\ history = <<>>
    /\ InitTables

\* one caller of generate_number
NextFormat ==
    \/ \E et \in CallTypes : Call("p1", "generate", et, None)
    \/ GenerateRule("p1")
    \/ get_or_create_sequence("p1")
    \/ PreLockReset("p1")
    \/ SelectForUpdate("p1")
    \/ \E storageFails \in BOOLEAN : LockedIncrement("p1", storageFails)
    \/ Format("p1")
    \/ \E date \in Calendar : Tick(date)

SpecFormat == InitFormat /\ [][NextFormat]_vars

\* the decimal digits of n written on k places
Places(n, k) == [i \in 1 .. k |-> Digits[((n \div (10 ^ (k - i))) % 10) + 1]]

\* the number of decimal digits of n, for n below 10000
Width(n) == IF n < 10 THEN 1 ELSE IF n < 100 THEN 2 ELSE IF n < 1000 THEN 3 ELSE 4

\* C25: the number generate_number returns is made of, in this order, the
\* prefix if it is not empty, the current year on 4 places or its last two
\* digits if include_year, the current month on 2 places if include_month,
\* each followed by the delimiter, and the sequence value padded with zeros
\* to sequence_length
C25_FormatOfNumber ==
    [][\A p \in Procs :
          (proc[p].pc = "format" /\ proc'[p] /= proc[p])
          => LET rule == numberingRule[proc[p].et]
                 n == proc[p].next_value
                 prefix == IF rule.prefix /= <<>>
                           THEN rule.prefix \o rule.delimiter ELSE <<>>
                 year == IF ~rule.include_year THEN <<>>
                         ELSE IF rule.year_format = "YY"
                         THEN Places(today.year, 2) \o rule.delimiter
                         ELSE Places(today.year, 4) \o rule.delimiter
                 month == IF rule.include_month
                          THEN Places(today.month, 2) \o rule.delimiter ELSE <<>>
                 sequence == IF Width(n) < rule.sequence_length
                             THEN Places(n, rule.sequence_length)
                             ELSE Places(n, Width(n))
             IN history'[Len(history')].number
                    = prefix \o year \o month \o sequence]_vars

\* prefix INV, 4-digit year, width 6, delimiter '-', value 123 in 2026
C25_Witness ==
    /\ today.year = 2026
    /\ numberingRule["invoice"].prefix = <<"I", "N", "V">>
    /\ numberingRule["invoice"].sequence_length = 6
    /\ \E i \in DOMAIN history :
          /\ history[i].value = 123
          /\ history[i].number
                = <<"I", "N", "V", "-", "2", "0", "2", "6", "-",
                    "0", "0", "0", "1", "2", "3">>

(***************************************************************************)
(* Read-only lifecycle calls                                               *)
(***************************************************************************)
\* total number of read-only calls in one behaviour
MaxQueries == 2

\* the tables a read-only call leaves alone
Tables == <<stateDef, transRule, audit, lifecycle_state, seqRow, assigned>>

\* the call is recorded with its arguments and its result, and whether it
\* repeats the call before it
Queried(fn, args, result) ==
    /\ queries < MaxQueries
    /\ queries' = queries + 1
    /\ lastQuery' = [fn |-> fn, args |-> args, result |-> result,
                     again |-> /\ lastQuery /= NoQuery
                               /\ lastQuery.fn = fn /\ lastQuery.args = args]

\* validate_transition that keeps a record of what it validated
ValidateTransitionRecorded(et, from, to, reason, user) ==
    /\ Queried("validate_transition", <<et, from, to, reason, user>>,
               validate_transition(et, from, to, reason, user))
    /\ audit' = Append(audit, AuditEntry(user, et, None, from, to, reason, FALSE))
    /\ UNCHANGED <<stateDef, transRule, lifecycle_state, saver, lifeOps,
                   began, lastCall, instance, numVars>>

\* a call of can_transition(entity_type, from_state, to_state, user)
CanTransition(et, from, to, user) ==
    /\ Queried("can_transition", <<et, from, to, user>>,
               can_transition(et, from, to, user))
    /\ UNCHANGED <<stateDef, transRule, audit, lifecycle_state, saver, lifeOps,
                   began, lastCall, instance, numVars>>

\* a call of validate_transition(entity_type, from_state, to_state, reason, user)
ValidateTransition(et, from, to, reason, user) ==
    /\ Queried("validate_transition", <<et, from, to, reason, user>>,
               validate_transition(et, from, to, reason, user))
    /\ UNCHANGED <<stateDef, transRule, audit, lifecycle_state, saver, lifeOps,
                   began, lastCall, instance, numVars>>

\* a call of get_allowed_transitions(entity_type, from_state)
GetAllowedTransitions(et, from) ==
    /\ Queried("get_allowed_transitions", <<et, from>>,
               get_allowed_transitions(et, from))
    /\ UNCHANGED <<stateDef, transRule, audit, lifecycle_state, saver, lifeOps,
                   began, lastCall, instance, numVars>>

\* the transition rules a behaviour may start with: each edge between the
\* two states without a rule, or with an active rule with or without a
\* precondition; each self-edge without a rule or with a plain active rule
\* (save() does not call clean())
QueryTransitionChoices ==
    LET rows == {NoTransition, TransitionRow("", FALSE, TRUE),
                 TransitionRow("approve", FALSE, TRUE), TransitionRow("", TRUE, TRUE)}
        selfRows == {NoTransition, TransitionRow("", FALSE, TRUE)}
    IN {[k \in LifeTypes \X StateNames \X StateNames |->
            IF k[2] = k[3] THEN (IF k[2] = "draft" THEN s1 ELSE s2)
            ELSE IF k[2] = "draft" THEN r1 ELSE r2] :
          r1 \in rows, r2 \in rows, s1 \in selfRows, s2 \in selfRows}

InitQuery ==
    /\ today = StartDate
    /\ numberingRule = [et \in EntityTypes |-> NoRule]
    /\ seqRow = [et \in EntityTypes |-> NoRow]
    /\ lock = [et \in EntityTypes |-> None]
    /\ assigned = <<>>
    /\ proc = [p \in Procs |-> Idle]
    /\ history = <<>>
    /\ stateDef \in StateDefChoices
    /\ transRule \in QueryTransitionChoices
    /\ audit = <<>>
    /\ lifecycle_state = [eid \in LifeEntityIds |-> "draft"]
    /\ saver = [p \in Procs |-> NoSave]
    /\ began = [p \in Procs |-> 0]
    /\ queries = 0
    /\ lastQuery = NoQuery
    /\ instance = [p \in Procs |-> NoInstance]
    /\ lifeOps = 0
    /\ lastCall = NoCall

NextQuery ==
    \/ \E et \in LifeTypes, from \in StateNames, to \in StateNames,
          user \in Users \cup {None} :
          CanTransition(et, from, to, user)
    \/ \E et \in LifeTypes, from \in StateNames, to \in StateNames,
          reason \in Reasons, user \in Users \cup {None} :
          ValidateTransition(et, from, to, reason, user)
    \/ \E et \in LifeTypes, from \in StateNames : GetAllowedTransitions(et, from)

SpecQuery == InitQuery /\ [][NextQuery]_vars

\* a call of can_transition or validate_transition is made in this step
Decides ==
    /\ queries' = queries + 1
    /\ lastQuery'.fn \in {"can_transition", "validate_transition"}

TypeRules == {Rule(TRUE, TRUE, FALSE, "none"), Rule(TRUE, TRUE, FALSE, "yearly")}

InitTypes ==
    /\ today = StartDate
    /\ \E rule \in TypeRules : numberingRule = [et \in EntityTypes |-> rule]
    /\ seqRow = [et \in EntityTypes |-> NoRow]
    /\ lock = [et \in EntityTypes |-> None]
    /\ assigned = <<>>
    /\ proc = [p \in Procs |-> Idle]
    /\ history = <<>>
    /\ InitTables

\* callers of get_next_sequence_value and assign_number on either type
NextTypes ==
    \/ \E p \in Procs, et \in EntityTypes : Call(p, "next", et, None)
    \/ \E p \in Procs, et \in EntityTypes : Call(p, "assign", et, "e1")
    \/ \E p \in Procs : AssignCheck(p)
    \/ \E p \in Procs : GenerateRule(p)
    \/ \E p \in Procs : get_or_create_sequence(p)
    \/ \E p \in Procs : PreLockReset(p)
    \/ \E p \in Procs : SelectForUpdate(p)
    \/ \E p \in Procs, storageFails \in BOOLEAN : LockedIncrement(p, storageFails)
    \/ \E p \in Procs : Format(p)
    \/ \E p \in Procs, storageFails \in BOOLEAN : CreateAssigned(p, storageFails)
    \/ \E date \in Calendar : Tick(date)

SpecTypes == InitTypes /\ [][NextTypes]_vars

\* the assigned numbers of one entity type, in creation order
AssignedOfType(table, et) ==
    SelectSeq(table, LAMBDA row : row.entity_type = et)

\* caller p stands before a statement that takes the row lock of its type
BeforeLock(p) == proc[p].pc \in {"getseq", "prereset", "lock"}

\* C27: a step of a get_next_sequence_value / assign_number call for one
\* entity type leaves the counter row, the row lock and the assigned numbers
\* of every other entity type as they were; and a caller whose own type's
\* row is not locked by another caller can take its next step, whatever
\* locks are held on other types
C27_TypesIndependent ==
    /\ [][\A p \in Procs :
             proc'[p] /= proc[p] =>
                LET et == IF proc[p].pc = "idle" THEN proc'[p].et ELSE proc[p].et
                IN \A other \in EntityTypes \ {et} :
                      /\ seqRow'[other] = seqRow[other]
                      /\ lock'[other] = lock[other]
                      /\ AssignedOfType(assigned', other)
                            = AssignedOfType(assigned, other)]_vars
    /\ [](\A p \in Procs :
             (BeforeLock(p) /\ lock[proc[p].et] \in {None, p})
             => ENABLED (\/ get_or_create_sequence(p)
                         \/ PreLockReset(p)
                         \/ SelectForUpdate(p)))

\* each caller holds the row lock of its own entity type at the same time
C27_Witness ==
    /\ lock["invoice"] /= None
    /\ lock["order"] /= None
    /\ lock["invoice"] /= lock["order"]
    /\ seqRow["invoice"] /= NoRow

(***************************************************************************)
(* The default state after state-definition saves                          *)
(***************************************************************************)
\* a call of get_default_state(entity_type)
GetDefaultState(et) ==
    /\ Queried("get_default_state", <<et>>, get_default_state(et))
    /\ UNCHANGED <<stateDef, transRule, audit, lifecycle_state, saver, lifeOps,
                   began, lastCall, instance, numVars>>

\* administrators save state definitions, active or not, while
\* get_default_state is called
NextDefaultState ==
    \/ \E p \in Procs, et \in LifeTypes, name \in StateNames,
          dflt \in BOOLEAN, active \in BOOLEAN :
          BeginSave(p, et, name, "normal", dflt, active)
    \/ \E p \in Procs : ClearOtherDefaults(p)
    \/ \E p \in Procs : SuperSave(p)
    \/ \E et \in LifeTypes : GetDefaultState(et)

SpecDefaultState == InitLife /\ [][NextDefaultState]_vars

\* C28: get_default_state returns the state_name of a definition flagged
\* default whenever the entity type has one, and raises
\* MissingStateDefinitionError, and nothing else, when it has none
C28_DefaultStateOrMissing ==
    [][(queries' = queries + 1 /\ lastQuery'.fn = "get_default_state") =>
          LET et == lastQuery'.args[1]
              result == lastQuery'.result
          IN IF Defaults(stateDef, et) = {}
             THEN result.raised = "MissingStateDefinitionError"
             ELSE /\ result.raised = None
                  /\ result.state_name \in Defaults(stateDef, et)]_vars

\* the state definition of the to_state of the call made in this step
CallToDef == stateDef[<<lastCall'.call.entity_type, lastCall'.call.to_state>>]

\* C29: perform_transition with a from_state or a to_state that has no
\* state definition for the entity type ends in an error and writes no
\* audit entry
C29_OnlyRegisteredStates ==
    [][(Performs /\ (CallDef = NoDef \/ CallToDef = NoDef))
          => /\ lastCall'.outcome
                   \in {"MissingStateDefinitionError", "InvalidTransitionError"}
             /\ audit' = audit]_vars

\* C30: every rule that get_allowed_transitions returns for a from_state
\* leads to a to_state for which can_transition, called without a user, is
\* true; so the result is empty for a final from_state and holds no
\* self-transition
C30_AllowedAgreesWithCanTransition ==
    [][(queries' = queries + 1 /\ lastQuery'.fn = "get_allowed_transitions") =>
          \A k \in lastQuery'.result :
             /\ can_transition(k[1], k[2], k[3], None)
             /\ ~is_state_final(k[1], k[2])
             /\ k[2] /= k[3]]_vars

\* C31: a call of perform_lifecycle_transition writes an audit entry for the
\* entity if and only if it updates the entity's stored lifecycle_state to
\* the entry's to_state, also when saving the entity record fails
C31_AuditIffStateUpdated ==
    [][\A eid \in LifeEntityIds, to \in StateNames, user \in Users,
          reason \in Reasons, override \in BOOLEAN, saveFails \in BOOLEAN :
          perform_lifecycle_transition(eid, to, user, reason, override, saveFails)
          => ( (audit' /= audit)
                 <=> (lifecycle_state'[eid] = to /\ lifecycle_state[eid] /= to) )]_vars

(***************************************************************************)
(* assign_number without concurrent callers                                *)
(***************************************************************************)
\* one caller of assign_number, one call after the other
NextAlone ==
    \/ \E et \in CallTypes, eid \in EntityIds : Call("p1", "assign", et, eid)
    \/ AssignCheck("p1")
    \/ GenerateRule("p1")
    \/ get_or_create_sequence("p1")
    \/ PreLockReset("p1")
    \/ SelectForUpdate("p1")
    \/ \E storageFails \in BOOLEAN : LockedIncrement("p1", storageFails)
    \/ Format("p1")
    \/ \E storageFails \in BOOLEAN : CreateAssigned("p1", storageFails)
    \/ \E date \in Calendar : Tick(date)

SpecAlone == InitNum /\ [][NextAlone]_vars

\* C32: assign_number, called without concurrent callers for an entity that
\* has no number under an existing enabled rule, returns an AssignedNumber
\* unless the store itself fails, also after a yearly or monthly reset and
\* whatever the rule's include_year / include_month flags
C32_AssignAloneSucceeds ==
    [][\A p \in Procs :
          (proc[p].pc = "create" /\ proc'[p].pc = "idle")
          => history'[Len(history')].outcome \in {"ok", "DatabaseError"}]_vars

\* C33: perform_transition validates a request the same way whatever its
\* is_override flag: the call is accepted exactly when validate_transition,
\* which does not see the flag, admits it; a denied request writes nothing,
\* and an accepted one writes the entry of the request without the flag,
\* with the flag copied in
C33_OverrideNotAuthority ==
    [][Performs =>
          LET c == lastCall'.call
          IN IF validate_transition(c.entity_type, c.from_state, c.to_state,
                                    c.reason, c.user).ok
             THEN /\ lastCall'.outcome = "ok"
                  /\ audit' = Append(audit,
                        [AuditEntry(c.user, c.entity_type, c.entity_id,
                                    c.from_state, c.to_state, c.reason, FALSE)
                            EXCEPT !.is_override = c.is_override])
             ELSE /\ lastCall'.outcome = "InvalidTransitionError"
                  /\ audit' = audit]_vars

\* an override request between two different states, out of a state that
\* is not final, was denied because the user lacks the rule's permission
C33_Witness ==
    /\ lastCall /= NoCall
    /\ lastCall.outcome = "InvalidTransitionError"
    /\ lastCall.call.is_override
    /\ lastCall.call.user = "bob"
    /\ transRule[<<"order", lastCall.call.from_state, lastCall.call.to_state>>]
          = TransitionRow("approve", FALSE, TRUE)
    /\ stateDef[<<"order", lastCall.call.from_state>>] = NoDef
    /\ lastCall.call.from_state /= lastCall.call.to_state

(***************************************************************************)
(* Termination of the numbering calls                                      *)
(***************************************************************************)
\* the next statement of caller p's call
CallStep(p) ==
    \/ AssignCheck(p)
    \/ GenerateRule(p)
    \/ get_or_create_sequence(p)
    \/ PreLockReset(p)
    \/ SelectForUpdate(p)
    \/ \E storageFails \in BOOLEAN : LockedIncrement(p, storageFails)
    \/ Format(p)
    \/ \E storageFails \in BOOLEAN : CreateAssigned(p, storageFails)

\* callers on both entity types, the clock standing still; every caller
\* that can take its next statement eventually takes it: each
\* caller is a thread of its own, and the store grants a row lock to a
\* waiting transaction once the lock is free
NextFair ==
    \/ \E p \in Procs, et \in EntityTypes : Call(p, "next", et, None)
    \/ \E p \in Procs, et \in EntityTypes : Call(p, "assign", et, "e1")
    \/ \E p \in Procs : CallStep(p)

SpecFair ==
    InitTypes /\ [][NextFair]_vars /\ \A p \in Procs : WF_vars(CallStep(p))

\* C34: every call of get_next_sequence_value or assign_number, with
\* concurrent callers on either entity type, eventually returns or raises;
\* and whenever a call is under way, some caller can take a step
C34_CallsTerminate ==
    /\ \A p \in Procs : (proc[p].pc /= "idle") ~> (proc[p].pc = "idle")
    /\ []((\E p \in Procs : proc[p].pc /= "idle")
            => \E p \in Procs : ENABLED CallStep(p))

\* a caller waits for the row lock that the other caller's assign_number
\* holds until it commits
C34_Witness ==
    /\ proc["p2"].pc = "lock"
    /\ proc["p1"].op = "assign"
    /\ proc["p1"].et = proc["p2"].et
    /\ lock[proc["p2"].et] = "p1"

(***************************************************************************)
(* format_number on several sequence values                                *)
(***************************************************************************)
\* the sequence values format_number is called with: narrower than, as wide
\* as and wider than sequence_length 3
SequenceValues == {1, 10, 11, 100, 101, 999, 1000, 1001, 10000}

\* a call of format_number(rule, sequence_value) for the rule of et
FormatNumber(et, n) ==
    /\ numberingRule[et] /= NoRule
    /\ Queried("format_number", <<et, n>>,
               format_number(numberingRule[et], n, today))
    /\ UNCHANGED <<stateDef, transRule, audit, lifecycle_state, saver, lifeOps,
                   began, lastCall, instance, numVars>>

\* format_number is called again and again on one rule, the date unchanged
NextValues == \E et \in CallTypes, n \in SequenceValues : FormatNumber(et, n)

SpecValues == InitFormat /\ [][NextValues]_vars

\* C35: for one rule on one date, format_number gives different strings for
\* different sequence values
C35_FormatInjective ==
    [][( /\ queries' = queries + 1
         /\ lastQuery /= NoQuery
         /\ lastQuery'.args /= lastQuery.args )
          => lastQuery'.result /= lastQuery.result]_vars

\* 1001 was formatted after another value, by a rule of width 3 with an
\* empty delimiter that writes the month
C35_Witness ==
    /\ queries = 2
    /\ ~lastQuery.again
    /\ lastQuery.args[2] = 1001
    /\ numberingRule["invoice"].sequence_length = 3
    /\ numberingRule["invoice"].delimiter = <<>>
    /\ numberingRule["invoice"].include_month

(***************************************************************************)
(* Concurrent transition requests on one entity                            *)
(***************************************************************************)
\* how many requests load an entity
MaxRequests == 2

\* a request reads the entity record into an instance of its own
LoadEntity(p, eid) ==
    /\ instance[p] = NoInstance
    /\ lifeOps < MaxRequests
    /\ lifeOps' = lifeOps + 1
    /\ instance' = [instance EXCEPT ![p] =
                       [id |-> eid, lifecycle_state |-> lifecycle_state[eid],
                        pc |-> "transition"]]
    /\ UNCHANGED <<stateDef, transRule, audit, lifecycle_state, saver,
                   began, queries, lastQuery, lastCall, numVars>>

\* perform_lifecycle_transition up to the return of perform_transition: the
\* locked check and the transition, both on the instance's lifecycle_state;
\* the audit entry is committed when perform_transition returns
TransitionInstance(p, to, user, reason, override) ==
    /\ instance[p] /= NoInstance
    /\ instance[p].pc = "transition"
    /\ LET eid == instance[p].id
           et == EntityTypeOf(eid)
           from == instance[p].lifecycle_state
           v == validate_transition(et, from, to, reason, user)
           call == [entity_type |-> et, entity_id |-> eid, from_state |-> from,
                    to_state |-> to, user |-> user, reason |-> reason,
                    is_override |-> override]
       IN IF is_state_locked(et, from)
          THEN /\ lastCall' = [call |-> call, outcome |-> "LockedStateError",
                               message |-> "Cannot modify entity in locked state"]
               /\ instance' = [instance EXCEPT ![p] = NoInstance]
               /\ UNCHANGED audit
          ELSE IF ~v.ok
          THEN /\ lastCall' = [call |-> call, outcome |-> "InvalidTransitionError",
                               message |-> v.error]
               /\ instance' = [instance EXCEPT ![p] = NoInstance]
               /\ UNCHANGED audit
          ELSE /\ audit' = Append(audit,
                              AuditEntry(user, et, eid, from, to, reason, override))
               /\ lastCall' = [call |-> call, outcome |-> "ok", message |-> None]
               /\ instance' = [instance EXCEPT ![p] =
                                  [id |-> eid, lifecycle_state |-> to,
                                   pc |-> "save"]]
    /\ UNCHANGED <<stateDef, transRule, lifecycle_state, saver, lifeOps,
                   began, queries, lastQuery, numVars>>

\* the rest of perform_lifecycle_transition: self.save() writes the
\* instance's lifecycle_state over the stored record (the save succeeds)
SaveInstance(p) ==
    /\ instance[p] /= NoInstance
    /\ instance[p].pc = "save"
    /\ lifecycle_state' = [lifecycle_state EXCEPT
                              ![instance[p].id] = instance[p].lifecycle_state]
    /\ instance' = [instance EXCEPT ![p] = NoInstance]
    /\ UNCHANGED <<stateDef, transRule, audit, saver, lifeOps,
                   began, queries, lastQuery, lastCall, numVars>>

NextRequests ==
    \/ \E p \in Procs, eid \in LifeEntityIds : LoadEntity(p, eid)
    \/ \E p \in Procs, to \in StateNames, user \in Users, reason \in Reasons,
          override \in BOOLEAN : TransitionInstance(p, to, user, reason, override)
    \/ \E p \in Procs : SaveInstance(p)

SpecRequests == InitEntity /\ [][NextRequests]_vars

\* the audit entries of entity eid, in creation order
EntriesOf(eid) == SelectSeq(audit, LAMBDA e : e.entity_id = eid)

\* C36: when no request is in progress, the audit entries of an entity form
\* a chain (each from_state is the to_state of the entity's previous entry)
\* and the stored lifecycle_state is the to_state of the latest entry, also
\* after two requests for the entity ran concurrently
C36_AuditChain ==
    (\A p \in Procs : instance[p] = NoInstance)
    => \A eid \in LifeEntityIds :
          LET es == EntriesOf(eid)
          IN /\ \A i \in 2..Len(es) : es[i].from_state = es[i-1].to_state
             /\ es /= <<>> => lifecycle_state[eid] = es[Len(es)].to_state

====
